---- MODULE Spec2Model ----
(***************************************************************************)
(* Earthquake Visualizer: the EarthquakeVisualizer React component, its    *)
(* one-shot feed fetch (promise chain with a `mounted` flag), the derived  *)
(* views (filtered, sorted list, markers), the FitBounds child and the     *)
(* magToColor encoder.                                                     *)
(*                                                                         *)
(* Magnitudes and slider values are numbers with two decimals, held as     *)
(* integers in hundredths: 5.2 is 520, the slider step 0.1 is 10, the      *)
(* slider maximum 6 is 600.                                                *)
(***************************************************************************)
EXTENDS Integers, Sequences, FiniteSets, Bags, TLC

\* ------------------------------------------------------------------ bounds
\* longest `features` array a payload carries
MaxFeatures == 3
\* magToColor is probed on every magnitude from -ProbeBelow to ProbeAbove
ProbeBelow == 150
ProbeAbove == 750

\* ------------------------------------------------------- JavaScript values
\* a JSON number, null, or an absent property (undefined)
Num(v) == [k |-> "num", v |-> v]
NULL == [k |-> "null", v |-> 0]
UNDEF == [k |-> "undef", v |-> 0]

\* `x == null` / the left side of `x ?? y`: true of null and of undefined
Nullish(x) == x.k # "num"

\* `x ?? 0`
Coalesce0(x) == IF Nullish(x) THEN 0 ELSE x.v

\* the `error` state before any failure: useState(null)
ErrNull == "<null>"

\* ------------------------------------------------------------ feed payloads
\* GeoJSON features as the feed may deliver them. hasProps / hasGeom tell
\* whether f.properties / f.geometry is an object; coordinates is
\* [lon, lat, depth?].
MkFeature(id, hasProps, mag, place, hasGeom, coordinates) ==
    [id |-> id, hasProps |-> hasProps, mag |-> mag, place |-> place,
     hasGeom |-> hasGeom, coordinates |-> coordinates]

FeaturePool ==
    { MkFeature("us1", TRUE, Num(520), "Chile", TRUE, <<-70, -30, 35>>),
      MkFeature("ak2", TRUE, Num(100), "Alaska", TRUE, <<-150, 61, 10>>),
      MkFeature("ci3", TRUE, NULL, "California", TRUE, <<-117, 34, 5>>),
      MkFeature("nc4", TRUE, UNDEF, "Geysers", TRUE, <<-122, 38>>),
      MkFeature("bad6", FALSE, UNDEF, "", TRUE, <<10, 20, 1>>),
      MkFeature("bad7", TRUE, Num(310), "Nowhere", FALSE, <<>>) }

RECURSIVE SeqsUpTo(_, _)
SeqsUpTo(S, n) ==
    IF n = 0 THEN { <<>> }
    ELSE LET shorter == SeqsUpTo(S, n - 1)
         IN shorter \cup { Append(s, x) : s \in { t \in shorter : Len(t) = n - 1 }, x \in S }

\* what r.json() resolves to: the literal null, an object without a
\* `features` property, or an object with a features array
Payloads ==
    { [kind |-> "null", hasFeatures |-> FALSE, features |-> <<>>],
      [kind |-> "object", hasFeatures |-> FALSE, features |-> <<>>] }
    \cup { [kind |-> "object", hasFeatures |-> TRUE, features |-> s] :
             s \in SeqsUpTo(FeaturePool, MaxFeatures) }

NoPayload == [kind |-> "none", hasFeatures |-> FALSE, features |-> <<>>]

\* messages of the errors fetch may reject with (an Error may carry none)
RejectMessages == { "Failed to fetch", "" }

\* the slider: min="0" max="6" step="0.1"
SliderMin == 0
SliderMax == 600
SliderStep == 10
\* slider positions the user moves to
Thresholds ==
    { v \in {0, 10, 100, 520, 600} :
        v >= SliderMin /\ v <= SliderMax /\ (v - SliderMin) % SliderStep = 0 }

\* ---------------------------------------------------------------- variables
VARIABLES
    data,      \* useState([]): the normalized set
    loading,   \* useState(true)
    error,     \* useState(null): ErrNull or a message
    minMag,    \* useState(0): the threshold
    mounted,   \* the effect's `let mounted`
    pc,        \* where the promise chain stands
    err,       \* message of the error travelling to .catch
    outcome,   \* how the fetch went: "none", "rejected", "notok", "parsefail", "parsed"
    json,      \* the payload r.json() resolved to
    fetches,   \* number of fetch(USGS_URL) calls issued
    view,      \* what the last render committed to the page
    mapView,   \* the Leaflet map's view, when a MapContainer is mounted
    fitReq,    \* whether the last commit called map.fitBounds
    m,         \* magToColor probe: the magnitude
    color      \* magToColor probe: the token returned

vars == <<data, loading, error, minMag, mounted, pc, err, outcome, json,
          fetches, view, mapView, fitReq, m, color>>

\* ------------------------------------------------------------ pure functions
\* variant: the lower bounds taken as exclusive
magToColorStrict(x) ==
    IF Nullish(x) THEN "#999"
    ELSE IF x.v > 500 THEN "#800026"
    ELSE IF x.v > 400 THEN "#BD0026"
    ELSE IF x.v > 300 THEN "#E31A1C"
    ELSE IF x.v > 200 THEN "#FC4E2A"
    ELSE IF x.v > 100 THEN "#FD8D3C"
    ELSE "#FED976"

magToColor(x) ==
    IF Nullish(x) THEN "#999"
    ELSE IF x.v >= 500 THEN "#800026"
    ELSE IF x.v >= 400 THEN "#BD0026"
    ELSE IF x.v >= 300 THEN "#E31A1C"
    ELSE IF x.v >= 200 THEN "#FC4E2A"
    ELSE IF x.v >= 100 THEN "#FD8D3C"
    ELSE "#FED976"

\* whether the .map callback throws a TypeError on feature f:
\* f.properties.mag with no properties, f.geometry.coordinates with no geometry
featureThrows(f) == ~f.hasProps \/ ~f.hasGeom

\* the record the .map callback builds from one feature
normalizeOne(f) ==
    [id |-> f.id,
     magnitude |-> f.mag,
     place |-> f.place,
     coords |-> f.coordinates,
     depth |-> IF Len(f.coordinates) >= 3 THEN Num(f.coordinates[3]) ELSE UNDEF]

\* (json.features || [])
featuresOf(j) == IF j.hasFeatures THEN j.features ELSE <<>>

\* variant: features without a magnitude are skipped
normalizeDropsNull(fs) ==
    LET kept == SelectSeq(fs, LAMBDA f : ~Nullish(f.mag))
    IN [i \in 1..Len(kept) |-> normalizeOne(kept[i])]

\* (json.features || []).map(...) applied to the features array
normalize(fs) == [i \in 1..Len(fs) |-> normalizeOne(fs[i])]

\* variant: json.features.map(...) without the `|| []` default
payloadThrowsWithoutDefault(j) ==
    \/ j.kind = "null"
    \/ ~j.hasFeatures
    \/ \E i \in 1..Len(j.features) : featureThrows(j.features[i])

\* whether the second .then handler throws on payload j
payloadThrows(j) ==
    \/ j.kind = "null"
    \/ \E i \in 1..Len(featuresOf(j)) : featureThrows(featuresOf(j)[i])

\* variant: the comparison taken as strict
filteredStrict(d, t) == SelectSeq(d, LAMBDA q : Coalesce0(q.magnitude) > t)

\* data.filter((d) => (d.magnitude ?? 0) >= minMag)
filtered(d, t) == SelectSeq(d, LAMBDA q : Coalesce0(q.magnitude) >= t)

\* variant: the comparator with its operands swapped
compareAscending(a, b) == Coalesce0(a.magnitude) - Coalesce0(b.magnitude)

\* the comparator (a, b) => (b.magnitude ?? 0) - (a.magnitude ?? 0)
compare(a, b) == Coalesce0(b.magnitude) - Coalesce0(a.magnitude)

\* Array.prototype.sort is stable: x goes behind every element that does
\* not compare after it
RECURSIVE insertSorted(_, _)
insertSorted(s, x) ==
    IF s = <<>> THEN <<x>>
    ELSE IF compare(Head(s), x) <= 0 THEN <<Head(s)>> \o insertSorted(Tail(s), x)
    ELSE <<x>> \o s

RECURSIVE sortFrom(_, _)
sortFrom(acc, rest) ==
    IF rest = <<>> THEN acc ELSE sortFrom(insertSorted(acc, Head(rest)), Tail(rest))

\* filtered.slice().sort(...)
sorted(s) == sortFrom(<<>>, s)

\* <CircleMarker key center pathOptions.color> of one record
marker(f) ==
    [id |-> f.id, center |-> <<f.coords[2], f.coords[1]>>, color |-> magToColor(f.magnitude)]

\* variant: the ternary chain without the empty branch
branchKeepsMap(e, l, f) ==
    IF e # ErrNull /\ e # "" THEN "error"
    ELSE IF l THEN "loading"
    ELSE "map"

\* the ternary chain that picks what fills the map area
branch(e, l, f) ==
    IF e # ErrNull /\ e # "" THEN "error"
    ELSE IF l THEN "loading"
    ELSE IF Len(f) = 0 THEN "empty"
    ELSE "map"

\* one render of EarthquakeVisualizer
Render(d, l, e, t) ==
    LET f == filtered(d, t)
        b == branch(e, l, f)
    IN [branch |-> b,
        slider |-> t,
        total |-> Len(d),
        filtered |-> f,
        showing |-> Len(f),
        features |-> IF b = "map" THEN [i \in 1..Len(f) |-> <<f[i].coords[1], f[i].coords[2]>>] ELSE <<>>,
        markers |-> IF b = "map" THEN [i \in 1..Len(f) |-> marker(f[i])] ELSE <<>>,
        list |-> sorted(f)]

\* the page once the component is gone
NoView ==
    [branch |-> "unmounted", slider |-> 0, total |-> 0, filtered |-> <<>>, showing |-> 0,
     features |-> <<>>, markers |-> <<>>, list |-> <<>>]

\* ------------------------------------------------------------------ the map
NoMap == [kind |-> "none", bounds |-> <<>>]
\* <MapContainer center={[20, 0]} zoom={2}>
DefaultView == [kind |-> "default", bounds |-> <<>>]
UserView == [kind |-> "user", bounds |-> <<>>]

\* the bounds FitBounds computes: [lat, lon] of every feature
boundsOf(features) == [i \in 1..Len(features) |-> <<features[i][2], features[i][1]>>]

\* whether FitBounds' effect reaches map.fitBounds
fitCalled(features) == Len(features) # 0 /\ Len(boundsOf(features)) # 0

\* FitBounds' effect on a map whose view is mv
FitBounds(mv, features) ==
    IF fitCalled(features) THEN [kind |-> "fit", bounds |-> boundsOf(features)] ELSE mv

\* the map after committing render v over a page whose map had view mv:
\* the MapContainer exists only in the "map" branch; a new one starts at
\* its default view; FitBounds' effect runs after every render because its
\* `features` prop is a new array each time
commitMap(mv, v) ==
    IF v.branch # "map" THEN NoMap
    ELSE FitBounds(IF mv.kind = "none" THEN DefaultView ELSE mv, v.features)

commitFit(v) == v.branch = "map" /\ fitCalled(v.features)

\* re-render and commit after the state became (d, l, e, t)
Rerender(d, l, e, t) ==
    /\ view' = Render(d, l, e, t)
    /\ mapView' = commitMap(mapView, Render(d, l, e, t))
    /\ fitReq' = commitFit(Render(d, l, e, t))

\* ------------------------------------------------------------------- actions
\* the state after the first render, before the mount effect has run
Init ==
    /\ data = <<>>
    /\ loading = TRUE
    /\ error = ErrNull
    /\ minMag = 0
    /\ mounted = FALSE
    /\ pc = "idle"
    /\ err = ""
    /\ outcome = "none"
    /\ json = NoPayload
    /\ fetches = 0
    /\ view = Render(<<>>, TRUE, ErrNull, 0)
    /\ mapView = NoMap
    /\ fitReq = FALSE
    /\ m = NULL
    /\ color = "none"

\* the component is on the page and its effect has run
Alive == pc # "idle" /\ mounted

\* the component was torn down
TornDown == pc # "idle" /\ ~mounted

\* useEffect(() => { let mounted = true; setLoading(true); fetch(USGS_URL)... }, [])
\* setLoading(true) leaves loading as it is, so nothing re-renders
MountEffect ==
    /\ pc = "idle"
    /\ mounted' = TRUE
    /\ loading' = TRUE
    /\ fetches' = fetches + 1
    /\ pc' = "fetching"
    /\ UNCHANGED <<data, error, minMag, err, outcome, json, view, mapView, fitReq, m, color>>

\* fetch resolves with a response; the first .then handler runs
Then1(ok) ==
    /\ pc = "fetching"
    /\ IF ~ok
       THEN /\ err' = "Network response was not ok"
            /\ outcome' = "notok"
            /\ pc' = "catch"
       ELSE /\ pc' = "parsing"
            /\ UNCHANGED <<err, outcome>>
    /\ UNCHANGED <<data, loading, error, minMag, mounted, json, fetches, view, mapView, fitReq, m, color>>

\* fetch rejects: both .then handlers are skipped
FetchRejects(msg) ==
    /\ pc = "fetching"
    /\ err' = msg
    /\ outcome' = "rejected"
    /\ pc' = "catch"
    /\ UNCHANGED <<data, loading, error, minMag, mounted, json, fetches, view, mapView, fitReq, m, color>>

\* r.json() rejects: the body is not JSON
JsonRejects ==
    /\ pc = "parsing"
    /\ err' = "Unexpected token < in JSON at position 0"
    /\ outcome' = "parsefail"
    /\ pc' = "catch"
    /\ UNCHANGED <<data, loading, error, minMag, mounted, json, fetches, view, mapView, fitReq, m, color>>

\* variant: the handler without setLoading(false)
Then2ForgetsLoading(j) ==
    /\ pc = "parsing"
    /\ json' = j
    /\ outcome' = "parsed"
    /\ IF ~mounted
       THEN /\ pc' = "done"
            /\ UNCHANGED <<data, loading, err, view, mapView, fitReq>>
       ELSE IF payloadThrows(j)
       THEN /\ err' = "Cannot read properties of undefined"
            /\ pc' = "catch"
            /\ UNCHANGED <<data, loading, view, mapView, fitReq>>
       ELSE /\ data' = normalize(featuresOf(j))
            /\ pc' = "done"
            /\ Rerender(data', loading, error, minMag)
            /\ UNCHANGED <<loading, err>>
    /\ UNCHANGED <<error, minMag, mounted, fetches, m, color>>

\* r.json() resolves with j; the second .then handler runs
Then2(j) ==
    /\ pc = "parsing"
    /\ json' = j
    /\ outcome' = "parsed"
    /\ IF ~mounted
       THEN /\ pc' = "done"
            /\ UNCHANGED <<data, loading, err, view, mapView, fitReq>>
       ELSE IF payloadThrows(j)
       THEN /\ err' = "Cannot read properties of undefined"
            /\ pc' = "catch"
            /\ UNCHANGED <<data, loading, view, mapView, fitReq>>
       ELSE /\ data' = normalize(featuresOf(j))
            /\ loading' = FALSE
            /\ pc' = "done"
            \* both setters are called in this one run of the handler; the
            \* page is committed with both applied
            /\ Rerender(data', FALSE, error, minMag)
            /\ UNCHANGED err
    /\ UNCHANGED <<error, minMag, mounted, fetches, m, color>>

\* variant: the handler without setLoading(false)
CatchKeepsLoading ==
    /\ pc = "catch"
    /\ pc' = "done"
    /\ IF ~mounted
       THEN UNCHANGED <<error, loading, view, mapView, fitReq>>
       ELSE /\ error' = (IF err # "" THEN err ELSE "Failed to load")
            /\ Rerender(data, loading, error', minMag)
            /\ UNCHANGED loading
    /\ UNCHANGED <<data, minMag, mounted, err, outcome, json, fetches, m, color>>

\* variant: the handler without `if (!mounted) return`
CatchUnguarded ==
    /\ pc = "catch"
    /\ pc' = "done"
    /\ error' = (IF err # "" THEN err ELSE "Failed to load")
    /\ loading' = FALSE
    /\ IF mounted THEN Rerender(data, FALSE, error', minMag)
       ELSE UNCHANGED <<view, mapView, fitReq>>
    /\ UNCHANGED <<data, minMag, mounted, err, outcome, json, fetches, m, color>>

\* the .catch handler
Catch ==
    /\ pc = "catch"
    /\ pc' = "done"
    /\ IF ~mounted
       THEN UNCHANGED <<error, loading, view, mapView, fitReq>>
       ELSE /\ error' = (IF err # "" THEN err ELSE "Failed to load")
            /\ loading' = FALSE
            /\ Rerender(data, FALSE, error', minMag)
    /\ UNCHANGED <<data, minMag, mounted, err, outcome, json, fetches, m, color>>

\* variant: the fetch effect depending on minMag, so a change fetches again
SetMinMagRefetches(v) ==
    /\ Alive
    /\ v \in Thresholds
    /\ v # minMag
    /\ minMag' = v
    /\ loading' = TRUE
    /\ fetches' = fetches + 1
    /\ pc' = "fetching"
    /\ Rerender(data, TRUE, error, v)
    /\ UNCHANGED <<data, error, mounted, err, outcome, json, m, color>>

\* the slider's onChange: setMinMag(parseFloat(e.target.value))
SetMinMag(v) ==
    /\ Alive
    /\ v \in Thresholds
    /\ v # minMag
    /\ minMag' = v
    /\ Rerender(data, loading, error, v)
    /\ UNCHANGED <<data, loading, error, mounted, pc, err, outcome, json, fetches, m, color>>

\* the user pans or zooms the Leaflet map
UserPan ==
    /\ Alive
    /\ mapView.kind \notin {"none", "user"}
    /\ mapView' = UserView
    /\ UNCHANGED <<data, loading, error, minMag, mounted, pc, err, outcome, json,
                   fetches, view, fitReq, m, color>>

\* the effect's cleanup, () => (mounted = false), as the component unmounts
Teardown ==
    /\ Alive
    /\ mounted' = FALSE
    /\ view' = NoView
    /\ mapView' = NoMap
    /\ fitReq' = FALSE
    /\ UNCHANGED <<data, loading, error, minMag, pc, err, outcome, json, fetches, m, color>>

Next ==
    \/ MountEffect
    \/ \E ok \in BOOLEAN : Then1(ok)
    \/ \E msg \in RejectMessages : FetchRejects(msg)
    \/ JsonRejects
    \/ \E j \in Payloads : Then2(j)
    \/ Catch
    \/ \E v \in Thresholds : SetMinMag(v)
    \/ UserPan
    \/ Teardown

Spec == Init /\ [][Next]_vars

\* ------------------------------------------------- magToColor on its own
ProbeMags == { NULL, UNDEF } \cup { Num(v) : v \in (0 - ProbeBelow)..ProbeAbove }

InitProbe ==
    /\ data = <<>>
    /\ loading = TRUE
    /\ error = ErrNull
    /\ minMag = 0
    /\ mounted = FALSE
    /\ pc = "idle"
    /\ err = ""
    /\ outcome = "none"
    /\ json = NoPayload
    /\ fetches = 0
    /\ view = Render(<<>>, TRUE, ErrNull, 0)
    /\ mapView = NoMap
    /\ fitReq = FALSE
    /\ m \in ProbeMags
    /\ color = "none"

\* pathOptions={{ color: magToColor(mag) }}
Encode ==
    /\ color = "none"
    /\ color' = magToColor(m)
    /\ UNCHANGED <<data, loading, error, minMag, mounted, pc, err, outcome, json,
                   fetches, view, mapView, fitReq, m>>

NextProbe == Encode

SpecColor == InitProbe /\ [][NextProbe]_vars

\* ------------------------------------------------------------------- claims
\* the states of the fetch lifecycle, read off (loading, error)
Failed == error # ErrNull /\ ~loading
Loaded == error = ErrNull /\ ~loading
Loading == error = ErrNull /\ loading

\* the magnitude a record is compared by: null or missing counts as 0
Mag0(q) == IF q.magnitude.k = "num" THEN q.magnitude.v ELSE 0

\* the records of d at or above threshold t, in d's order
RECURSIVE AtOrAbove(_, _)
AtOrAbove(d, t) ==
    IF Len(d) = 0 THEN <<>>
    ELSE IF Mag0(d[1]) >= t THEN <<d[1]>> \o AtOrAbove(SubSeq(d, 2, Len(d)), t)
    ELSE AtOrAbove(SubSeq(d, 2, Len(d)), t)

\* how often x occurs in s
Occurrences(s, x) == Cardinality({ i \in 1..Len(s) : s[i] = x })

IsPermutation(s, t) ==
    /\ Len(s) = Len(t)
    /\ \A i \in 1..Len(s) : Occurrences(s, s[i]) = Occurrences(t, s[i])

\* C1: when the fetch rejects or the response is not ok, the component
\* (while on the page) ends in Failed: an error message is stored and shown,
\* loading is false, data is empty and the filtered view is empty, whatever
\* threshold the slider is moved to afterwards.
C1_FetchFailureEndsFailed ==
    (outcome \in {"rejected", "notok"} /\ pc = "done" /\ mounted) =>
        /\ error # ErrNull
        /\ error # ""
        /\ loading = FALSE
        /\ data = <<>>
        /\ view.branch = "error"
        /\ view.filtered = <<>>
        /\ view.showing = 0
        /\ view.list = <<>>

\* C1 witness: a rejected fetch was handled and the slider was moved.
C1_Witness ==
    /\ outcome = "rejected"
    /\ pc = "done"
    /\ mounted
    /\ error = "Failed to load"
    /\ minMag = 520

\* C2: once the component is torn down, no step changes data, loading or
\* error, however the pending fetch settles.
C2_NoMutationAfterTeardown ==
    [][TornDown => (data' = data /\ loading' = loading /\ error' = error)]_vars

\* C2 witness: the fetch settled after the teardown and was discarded.
C2_Witness ==
    /\ TornDown
    /\ pc = "done"
    /\ outcome \in {"rejected", "notok", "parsefail", "parsed"}
    /\ loading
    /\ error = ErrNull
    /\ data = <<>>

\* C3: the filtered view is exactly the records of data with magnitude
\* (null or missing as 0) >= the threshold, in data's order; a higher
\* threshold never shows more; a null-magnitude record is shown at 0 and
\* hidden above 0.
C3_FilterIsOrderedSubset ==
    /\ Alive =>
        /\ view.filtered = AtOrAbove(data, minMag)
        /\ view.showing = Len(AtOrAbove(data, minMag))
    /\ \A t \in Thresholds :
        /\ filtered(data, t) = AtOrAbove(data, t)
        /\ \A u \in Thresholds : u >= t => Len(filtered(data, u)) <= Len(filtered(data, t))
        /\ \A i \in 1..Len(data) :
              data[i].magnitude.k # "num" =>
                  ((\E n \in 1..Len(filtered(data, t)) : filtered(data, t)[n] = data[i]) <=> t = 0)

\* C3 witness: a null-magnitude record is loaded and hidden by a positive
\* threshold that still shows another record.
C3_Witness ==
    /\ Alive
    /\ Loaded
    /\ \E i \in 1..Len(data) : data[i].magnitude = NULL
    /\ minMag = 100
    /\ view.showing > 0
    /\ view.showing < Len(data)

\* C4: in Loaded the normalized set has the length and order of the raw
\* features, record i carries the id of raw feature i, and it is exactly
\* what this payload yields; outside Loaded it is empty.
C4_NormalizePreservesOrder ==
    /\ Loaded =>
        /\ outcome = "parsed"
        /\ Len(data) = Len(featuresOf(json))
        /\ \A i \in 1..Len(data) :
              /\ data[i].id = featuresOf(json)[i].id
              /\ data[i].magnitude = featuresOf(json)[i].mag
    /\ ~Loaded => data = <<>>

\* C4 witness: three features, one of null magnitude, are loaded.
C4_Witness ==
    /\ Loaded
    /\ Len(data) = 3
    /\ data[1].id = "ci3"
    /\ data[2].id = "us1"
    /\ data[3].id = "ci3"

\* a payload the handlers saw that is malformed as C5 lists it
MalformedAsClaimed ==
    \/ outcome = "parsefail"
    \/ /\ outcome = "parsed"
       /\ \/ ~json.hasFeatures
          \/ \E i \in 1..Len(json.features) :
                ~json.features[i].hasProps \/ ~json.features[i].hasGeom

\* C5 (as stated): every malformed response, a payload without the
\* `features` array included, ends in Failed and not in Loaded.
C5_MalformedEndsFailed ==
    (MalformedAsClaimed /\ pc = "done" /\ mounted) => (Failed /\ error # "")

\* C5 (amended): a body that is not JSON, a null payload, or a feature
\* without properties or geometry ends in Failed with a message; a payload
\* that only lacks the `features` array ends in Loaded with no records.
C5_MalformedAmended ==
    (pc = "done" /\ mounted) =>
        /\ ( \/ outcome = "parsefail"
             \/ /\ outcome = "parsed"
                /\ \/ json.kind = "null"
                   \/ \E i \in 1..Len(json.features) :
                         ~json.features[i].hasProps \/ ~json.features[i].hasGeom )
           => (Failed /\ error # "" /\ view.branch = "error" /\ data = <<>>)
        /\ (outcome = "parsed" /\ json.kind = "object" /\ ~json.hasFeatures)
           => (Loaded /\ data = <<>> /\ view.branch = "empty")

\* C5 witness: a payload with a feature without geometry was handled.
C5_Witness ==
    /\ pc = "done"
    /\ mounted
    /\ outcome = "parsed"
    /\ Failed
    /\ \E i \in 1..Len(json.features) :
          json.features[i].hasProps /\ ~json.features[i].hasGeom

\* C6: one fetch is issued; Loading is left only to Loaded or Failed, which
\* no later step leaves, re-fetches from, or swaps.
C6_OneShotLifecycle ==
    [][ /\ fetches' <= 1
        /\ (pc # "idle" => fetches' = fetches)
        /\ (~Loading => (Loaded' = Loaded /\ Failed' = Failed /\ loading' = FALSE
                          /\ error' = error /\ pc' = "done"))
        /\ (Loading' \/ Loaded' \/ Failed') ]_vars

\* C6 witness: the fetch has settled and the slider stands off its start.
C6_Witness ==
    /\ Alive
    /\ pc = "done"
    /\ Loaded
    /\ fetches = 1
    /\ minMag = 600
    /\ data # <<>>

\* C7 (as stated): a render whose filtered set is empty leaves the map with
\* the view it had.
C7_MapKeepsViewWhenEmpty ==
    [][(Alive' /\ mapView.kind # "none" /\ view'.filtered = <<>>) => mapView' = mapView]_vars

\* C7 (amended): while the filtered set is empty no bounds-fit is requested
\* and no map is mounted; a map that comes (back) into being is fitted to
\* the bounds of the records then shown, whatever view the earlier map had.
C7_EmptyUnmountsMap ==
    [][ /\ (Alive' /\ view'.filtered = <<>>) => (~fitReq' /\ mapView' = NoMap)
        /\ (Alive' /\ mapView = NoMap /\ mapView' # NoMap) =>
              /\ fitReq'
              /\ mapView'.kind = "fit"
              /\ mapView'.bounds =
                    [i \in 1..Len(AtOrAbove(data', minMag')) |->
                        <<AtOrAbove(data', minMag')[i].coords[2],
                          AtOrAbove(data', minMag')[i].coords[1]>>] ]_vars

\* C7 witness: records are loaded, the threshold hides them all, no map.
C7_Witness ==
    /\ Alive
    /\ Loaded
    /\ data # <<>>
    /\ minMag = 600
    /\ view.filtered = <<>>
    /\ view.branch = "empty"
    /\ mapView = NoMap

\* C8: every rendered state shows the filtered set, the sorted list and the
\* count of the current data and threshold, and the fetch completes in one
\* step: data is never populated while loading, nor an error set while
\* loading.
C8_RenderIsAtomic ==
    Alive =>
        /\ view.slider = minMag
        /\ view.total = Len(data)
        /\ view.filtered = AtOrAbove(data, minMag)
        /\ view.showing = Len(AtOrAbove(data, minMag))
        /\ IsPermutation(view.list, AtOrAbove(data, minMag))
        /\ view.branch = (IF error # ErrNull THEN "error"
                          ELSE IF loading THEN "loading"
                          ELSE IF AtOrAbove(data, minMag) = <<>> THEN "empty" ELSE "map")
        /\ (loading => (data = <<>> /\ error = ErrNull /\ pc # "done"))
        /\ (~loading => pc = "done")

\* C8 witness: loaded records rendered under a threshold set after loading
\* can only be reached through both kinds of state change.
C8_Witness ==
    /\ Alive
    /\ Loaded
    /\ Len(data) = 3
    /\ minMag = 520
    /\ view.showing = 1

\* C9: the sidebar list is a permutation of the filtered set, descending by
\* magnitude (null as 0); the filtered set and the markers keep data's order.
C9_ListSortedDescending ==
    Alive =>
        /\ IsPermutation(view.list, view.filtered)
        /\ \A i \in 1..(Len(view.list) - 1) : Mag0(view.list[i]) >= Mag0(view.list[i + 1])
        /\ view.filtered = AtOrAbove(data, minMag)
        /\ view.branch = "map" =>
              /\ Len(view.markers) = Len(view.filtered)
              /\ \A i \in 1..Len(view.markers) : view.markers[i].id = view.filtered[i].id

\* C9 witness: magnitudes [1.0, null, 5.2] listed as [5.2, 1.0, null].
C9_Witness ==
    /\ Alive
    /\ minMag = 0
    /\ Len(view.filtered) = 3
    /\ view.filtered[1].id = "ak2"
    /\ view.filtered[2].id = "ci3"
    /\ view.filtered[3].id = "us1"
    /\ view.list[1].id = "us1"
    /\ view.list[2].id = "ak2"
    /\ view.list[3].id = "ci3"

\* the six tokens, lightest to darkest
Palette == <<"#FED976", "#FD8D3C", "#FC4E2A", "#E31A1C", "#BD0026", "#800026">>

\* the lower bounds of buckets 2..6
LowerBounds == {100, 200, 300, 400, 500}

\* the bucket of a number: one more than the lower bounds it has reached
BucketOf(v) == 1 + Cardinality({ b \in LowerBounds : v >= b })

\* position of a token in the palette (0 for gray)
IndexOf(c) == IF \E i \in 1..6 : Palette[i] = c THEN CHOOSE i \in 1..6 : Palette[i] = c ELSE 0

\* C10: magToColor maps null to gray and a number to the token of the
\* highest inclusive lower bound among 5, 4, 3, 2, 1 it has reached (the
\* sixth token below 1); the bucket index never falls as magnitude rises.
C10_ColorBuckets ==
    color # "none" =>
        /\ (m.k # "num" => color = "#999")
        /\ (m.k = "num" =>
              /\ color = Palette[BucketOf(m.v)]
              /\ \A x \in ProbeMags :
                    (x.k = "num" /\ x.v >= m.v) => IndexOf(magToColor(x)) >= IndexOf(color))

\* C10 witness: magnitude exactly 5 encoded as the darkest token.
C10_Witness ==
    /\ m = Num(500)
    /\ color = "#800026"

====
